---- MODULE Spec2Model ----
(***************************************************************************)
(* Model of replace.py (oaeproject/Hilary): the jscoverage marker          *)
(* rewriter.  The script opens sys.argv[1] in mode r+, reads the whole     *)
(* file, substitutes repl(match) for every match of the pattern            *)
(*     _\$jscoverage\['<group: greedy dot-star>'\]                          *)
(* seeks to offset 0, writes the result without truncating, and closes     *)
(* the file.                                                               *)
(*                                                                         *)
(* Text is a sequence of one-character strings.  The script is a Python 2  *)
(* script run on a POSIX system: the file is read and written byte for     *)
(* byte, and the dot matches every character except the line feed.         *)
(***************************************************************************)
EXTENDS Integers, Sequences, FiniteSets, TLC

VARIABLES disk, argv, pc, text_file, whole_thing, err, m, runs, hist, trace

vars == <<disk, argv, pc, text_file, whole_thing, err, m, runs, hist, trace>>

(***************************************************************************)
(* Bounds.                                                                 *)
(***************************************************************************)
MaxPieces == 4      \* file contents: at most this many pieces (Spec)
MaxRacePieces == 3  \* file contents: at most this many pieces (SpecRace)
MaxRuns == 2        \* sequential invocations of the script (Spec)

Procs == {1, 2}

(***************************************************************************)
(* The literals of the pattern and of the replacement.                     *)
(***************************************************************************)
Opening == <<"_", "$", "j", "s", "c", "o", "v", "e", "r", "a", "g", "e", "[", "'">>
Closing == <<"'", "]">>
Slash == <<"/">>
LF == "\n"

Max(S) == CHOOSE x \in S : \A y \in S : y <= x
Min(S) == CHOOSE x \in S : \A y \in S : x <= y

\* the literal w occurs in s at position i
OccursAt(s, i, w) ==
  /\ i >= 1
  /\ i + Len(w) - 1 <= Len(s)
  /\ \A k \in 1..Len(w) : s[i + k - 1] = w[k]

(***************************************************************************)
(* The regular expression: the literal Opening, one group holding a       *)
(* greedy dot-star, the literal Closing; no flags.                         *)
(***************************************************************************)
\* the dot, without re.DOTALL
DotMatches(c) == c # LF

\* where the greedy .* started at k stops consuming
GreedyStop(s, k) ==
  Min({j \in k..(Len(s) + 1) : j > Len(s) \/ ~DotMatches(s[j])})

\* variant: a lazy group, which ends at the first Closing it can reach
GroupEndLazy(s, k) ==
  LET stop == GreedyStop(s, k)
      cands == {e \in k..stop : OccursAt(s, e, Closing)}
  IN  IF cands = {} THEN 0 ELSE Min(cands)

\* start of the closing '] of the match whose group starts at k: the greedy
\* .* backtracks from where it stopped to the last '] it can reach; 0: none
GroupEnd(s, k) ==
  LET stop == GreedyStop(s, k)
      cands == {e \in k..stop : OccursAt(s, e, Closing)}
  IN  IF cands = {} THEN 0 ELSE Max(cands)

\* the pattern matched at position i: start of its closing '], or 0
MatchAt(s, i) ==
  IF OccursAt(s, i, Opening) THEN GroupEnd(s, i + Len(Opening)) ELSE 0

(***************************************************************************)
(* repl(matchobj): _$jscoverage['%s/%s'] % (sys.argv[2], group(1)).        *)
(* sys.argv[2] raises IndexError when the script got fewer than two        *)
(* arguments (av[1] is sys.argv[0]).                                       *)
(***************************************************************************)
\* variant: the format string without the slash
replNoSlash(av, g) ==
  IF Len(av) < 3
    THEN [raised |-> TRUE, value |-> <<>>]
    ELSE [raised |-> FALSE, value |-> Opening \o av[3] \o g \o Closing]

repl(av, g) ==
  IF Len(av) < 3
    THEN [raised |-> TRUE, value |-> <<>>]
    ELSE [raised |-> FALSE, value |-> Opening \o av[3] \o Slash \o g \o Closing]

(***************************************************************************)
(* re.sub(pattern, repl, s): scan from the left; at a match call repl and  *)
(* go on after the match, else copy one character.  Besides the string,    *)
(* the result records the matches (start, end of each) and their number,   *)
(* as re.subn and re.finditer report them.                                 *)
(***************************************************************************)
RECURSIVE re_sub_from(_, _, _)
re_sub_from(s, i, av) ==
  IF i > Len(s)
    THEN [raised |-> FALSE, out |-> <<>>, n |-> 0, spans |-> <<>>]
    ELSE LET e == MatchAt(s, i) IN
      IF e = 0
        THEN LET r == re_sub_from(s, i + 1, av) IN
             [r EXCEPT !.out = <<s[i]>> \o @]
        ELSE LET rp == repl(av, SubSeq(s, i + Len(Opening), e - 1)) IN
          IF rp.raised
            THEN [raised |-> TRUE, out |-> <<>>, n |-> 0, spans |-> <<>>]
            ELSE LET r == re_sub_from(s, e + Len(Closing), av) IN
                 [raised |-> r.raised,
                  out |-> rp.value \o r.out,
                  n |-> r.n + 1,
                  spans |-> <<[start |-> i, end |-> e + Len(Closing) - 1]>> \o r.spans]

re_sub(s, av) == re_sub_from(s, 1, av)

(***************************************************************************)
(* The file system: one path.  A write at offset pos replaces the bytes    *)
(* it covers and keeps every byte after them (no truncation).              *)
(***************************************************************************)
\* variant: a write at the end of the file (no seek)
WriteAtAppend(data, pos, buf) == data \o buf

\* variant: a write that truncates the file after the bytes written
WriteAtTruncate(data, pos, buf) == SubSeq(data, 1, pos) \o buf

WriteAt(data, pos, buf) ==
  SubSeq(data, 1, pos) \o buf \o SubSeq(data, pos + Len(buf) + 1, Len(data))

(***************************************************************************)
(* Inputs.                                                                 *)
(***************************************************************************)
\* the pieces file contents are built from: the two literals of the
\* pattern, a quote, a line feed and a whole marker
Pieces == <<Opening, Closing, <<"'">>, <<LF>>, Opening \o <<"a">> \o Closing>>

RECURSIVE Flatten(_)
Flatten(ps) == IF ps = <<>> THEN <<>> ELSE Pieces[Head(ps)] \o Flatten(Tail(ps))

ContentsUpTo(n) ==
  {Flatten(ps) : ps \in UNION {[1..k -> 1..Len(Pieces)] : k \in 0..n}}

\* _$jscoverage['cassandra.js'][21] = 0;   (replace.py line 6)
CassandraLine ==
  Opening \o <<"c", "a", "s", "s", "a", "n", "d", "r", "a", ".", "j", "s">>
          \o <<"'", "]", "[", "2", "1", "]", " ", "=", " ", "0", ";">>

Contents == ContentsUpTo(MaxPieces) \cup {CassandraLine}
RaceContents == ContentsUpTo(MaxRacePieces)

Prefixes == {<<"d", "b">>, <<"x">>, <<LF>>}

\* the command lines: script name, then the path, then the prefix
Argvs ==
  {<<"replace.py">>, <<"replace.py", "f">>}
    \cup {<<"replace.py", "f", p>> : p \in Prefixes}

Disks ==
  {[exists |-> FALSE, rw |-> FALSE, data |-> <<>>]}
    \cup {[exists |-> TRUE, rw |-> b, data |-> c] : b \in BOOLEAN, c \in Contents}

Closed == [open |-> FALSE, pos |-> 0]
NoMatch == [n |-> 0, spans |-> <<>>]

(***************************************************************************)
(* Initial states: one invocation (Spec), two concurrent ones (SpecRace).  *)
(***************************************************************************)
Init ==
  /\ disk \in Disks
  /\ \E av \in Argvs : argv = [p \in Procs |-> av]
  /\ pc = [p \in Procs |-> IF p = 1 THEN "start" ELSE "idle"]
  /\ text_file = [p \in Procs |-> Closed]
  /\ whole_thing = [p \in Procs |-> <<>>]
  /\ err = [p \in Procs |-> "none"]
  /\ m = [p \in Procs |-> NoMatch]
  /\ runs = 1
  /\ hist = <<disk>>
  /\ trace = <<>>

InitRace ==
  /\ \E c \in RaceContents : disk = [exists |-> TRUE, rw |-> TRUE, data |-> c]
  /\ argv \in [Procs -> {<<"replace.py", "f", p>> : p \in Prefixes}]
  /\ pc = [p \in Procs |-> "start"]
  /\ text_file = [p \in Procs |-> Closed]
  /\ whole_thing = [p \in Procs |-> <<>>]
  /\ err = [p \in Procs |-> "none"]
  /\ m = [p \in Procs |-> NoMatch]
  /\ runs = 1
  /\ hist = <<disk>>
  /\ trace = <<>>

(***************************************************************************)
(* The script, one action per statement.                                   *)
(***************************************************************************)
\* an uncaught exception ends the process; the interpreter closes the file
Raise(p, e) ==
  /\ pc' = [pc EXCEPT ![p] = "error"]
  /\ err' = [err EXCEPT ![p] = e]
  /\ text_file' = [text_file EXCEPT ![p] = Closed]

\* variant: mode w+, which creates a missing file and empties an existing one
OpenCreate(p) ==
  /\ pc[p] = "start"
  /\ IF Len(argv[p]) < 2
       THEN Raise(p, "IndexError") /\ UNCHANGED disk
       ELSE IF disk.exists /\ ~disk.rw
         THEN Raise(p, "IOError") /\ UNCHANGED disk
         ELSE /\ pc' = [pc EXCEPT ![p] = "opened"]
              /\ text_file' = [text_file EXCEPT ![p] = [open |-> TRUE, pos |-> 0]]
              /\ disk' = [exists |-> TRUE, rw |-> TRUE, data |-> <<>>]
              /\ UNCHANGED err
  /\ UNCHANGED <<argv, whole_thing, m, runs, hist, trace>>

\* text_file = open(sys.argv[1], r+)
Open(p) ==
  /\ pc[p] = "start"
  /\ IF Len(argv[p]) < 2
       THEN Raise(p, "IndexError")
       ELSE IF ~disk.exists \/ ~disk.rw
         THEN Raise(p, "IOError")
         ELSE /\ pc' = [pc EXCEPT ![p] = "opened"]
              /\ text_file' = [text_file EXCEPT ![p] = [open |-> TRUE, pos |-> 0]]
              /\ UNCHANGED err
  /\ UNCHANGED <<disk, argv, whole_thing, m, runs, hist, trace>>

\* whole_thing = text_file.read()
Read(p) ==
  /\ pc[p] = "opened"
  /\ whole_thing' = [whole_thing EXCEPT
       ![p] = SubSeq(disk.data, text_file[p].pos + 1, Len(disk.data))]
  /\ text_file' = [text_file EXCEPT ![p].pos = Len(disk.data)]
  /\ pc' = [pc EXCEPT ![p] = "read"]
  /\ trace' = Append(trace, <<p, "read">>)
  /\ UNCHANGED <<disk, argv, err, m, runs, hist>>

\* whole_thing = re.sub(pattern, repl, whole_thing)
Sub(p) ==
  /\ pc[p] = "read"
  /\ LET r == re_sub(whole_thing[p], argv[p]) IN
       IF r.raised
         THEN Raise(p, "IndexError") /\ UNCHANGED <<whole_thing, m>>
         ELSE /\ whole_thing' = [whole_thing EXCEPT ![p] = r.out]
              /\ m' = [m EXCEPT ![p] = [n |-> r.n, spans |-> r.spans]]
              /\ pc' = [pc EXCEPT ![p] = "subbed"]
              /\ UNCHANGED <<text_file, err>>
  /\ UNCHANGED <<disk, argv, runs, hist, trace>>

\* text_file.seek(0)
Seek(p) ==
  /\ pc[p] = "subbed"
  /\ text_file' = [text_file EXCEPT ![p].pos = 0]
  /\ pc' = [pc EXCEPT ![p] = "seeked"]
  /\ UNCHANGED <<disk, argv, whole_thing, err, m, runs, hist, trace>>

\* text_file.write(whole_thing)
Write(p) ==
  /\ pc[p] = "seeked"
  /\ disk' = [disk EXCEPT !.data = WriteAt(@, text_file[p].pos, whole_thing[p])]
  /\ text_file' = [text_file EXCEPT ![p].pos = @ + Len(whole_thing[p])]
  /\ pc' = [pc EXCEPT ![p] = "written"]
  /\ trace' = Append(trace, <<p, "write">>)
  /\ UNCHANGED <<argv, whole_thing, err, m, runs, hist>>

\* text_file.close()
Close(p) ==
  /\ pc[p] = "written"
  /\ text_file' = [text_file EXCEPT ![p] = Closed]
  /\ pc' = [pc EXCEPT ![p] = "done"]
  /\ UNCHANGED <<disk, argv, whole_thing, err, m, runs, hist, trace>>

\* the script is invoked again with the same command line
Rerun(p) ==
  /\ pc[p] \in {"done", "error"}
  /\ runs < MaxRuns
  /\ runs' = runs + 1
  /\ hist' = Append(hist, disk)
  /\ pc' = [pc EXCEPT ![p] = "start"]
  /\ whole_thing' = [whole_thing EXCEPT ![p] = <<>>]
  /\ err' = [err EXCEPT ![p] = "none"]
  /\ m' = [m EXCEPT ![p] = NoMatch]
  /\ trace' = <<>>
  /\ UNCHANGED <<disk, argv, text_file>>

Next ==
  \/ Open(1)
  \/ Read(1)
  \/ Sub(1)
  \/ Seek(1)
  \/ Write(1)
  \/ Close(1)
  \/ Rerun(1)

NextRace ==
  \E p \in Procs :
    \/ Open(p)
    \/ Read(p)
    \/ Sub(p)
    \/ Seek(p)
    \/ Write(p)
    \/ Close(p)

Spec == Init /\ [][Next]_vars

SpecRace == InitRace /\ [][NextRace]_vars

TypeOK ==
  /\ pc \in [Procs -> {"idle", "start", "opened", "read", "subbed", "seeked",
                       "written", "done", "error"}]
  /\ err \in [Procs -> {"none", "IndexError", "IOError"}]
  /\ runs \in 1..(MaxRuns + 1)

(***************************************************************************)
(* Vocabulary of the properties.  A marker is the text Opening, IDENT,     *)
(* Closing on one line, IDENT being the shortest such run; markers are     *)
(* counted from the left and do not overlap.                               *)
(***************************************************************************)
\* the file as the current run found it, and the content it read
Start == hist[Len(hist)]
Orig == Start.data
HasPrefix(p) == Len(argv[p]) >= 3
Prefix(p) == argv[p][3]
Ins(p) == Prefix(p) \o Slash
Usable(d) == d.exists /\ d.rw
PastSub(p) == pc[p] \in {"subbed", "seeked", "written", "done"}

NoLF(s, i, j) == \A k \in i..j : s[k] # LF
Opens(s) == {i \in 1..Len(s) : OccursAt(s, i, Opening)}
Closes(s) == {j \in 1..Len(s) : OccursAt(s, j, Closing)}

\* the first Closing at or after k on the line of k, or 0
NextClosing(s, k) ==
  LET js == {j \in Closes(s) : j >= k /\ NoLF(s, k, j)}
  IN  IF js = {} THEN 0 ELSE Min(js)

\* the last Closing at or after k on the line of k, or 0
LastClosing(s, k) ==
  LET js == {j \in Closes(s) : j >= k /\ NoLF(s, k, j)}
  IN  IF js = {} THEN 0 ELSE Max(js)

\* start positions of the markers of s from position i on
RECURSIVE MarkersFrom(_, _)
MarkersFrom(s, i) ==
  IF i > Len(s) THEN <<>>
  ELSE IF OccursAt(s, i, Opening) /\ NextClosing(s, i + Len(Opening)) # 0
    THEN <<i>> \o MarkersFrom(s, NextClosing(s, i + Len(Opening)) + Len(Closing))
    ELSE MarkersFrom(s, i + 1)

Markers(s) == MarkersFrom(s, 1)
MarkerSet(s) == {Markers(s)[k] : k \in 1..Len(Markers(s))}

\* the openings that are the first of their line and have a Closing after
\* them on that line
FirstOpens(s) ==
  {i \in Opens(s) :
     /\ LastClosing(s, i + Len(Opening)) # 0
     /\ \A i2 \in Opens(s) : i2 < i => ~NoLF(s, i2, i)}

\* s with ins inserted right after the Opening at each position of at
RECURSIVE InsertFrom(_, _, _, _)
InsertFrom(s, i, at, ins) ==
  IF i > Len(s) THEN <<>>
  ELSE (IF (i - Len(Opening)) \in at THEN ins ELSE <<>>)
         \o <<s[i]>> \o InsertFrom(s, i + 1, at, ins)

InsertAfter(s, at, ins) == InsertFrom(s, 1, at, ins)

(***************************************************************************)
(* C8: the match never crosses a line break and is greedy within its line. *)
(* After the substitution the buffer is the content read with the prefix   *)
(* and a slash inserted once per line, right after the first Opening of    *)
(* each line that has a Closing after it; every match starts at the first  *)
(* Opening of its line, ends with the last Closing of that line and holds  *)
(* no line break; nothing else is changed.                                 *)
(***************************************************************************)
C8_GreedyPerLine ==
  PastSub(1) =>
    /\ whole_thing[1] = InsertAfter(Orig, FirstOpens(Orig), Ins(1))
    /\ m[1].n = Cardinality(FirstOpens(Orig))
    /\ \A k \in 1..Len(m[1].spans) :
         LET sp == m[1].spans[k] IN
           /\ sp.start \in FirstOpens(Orig)
           /\ sp.end = LastClosing(Orig, sp.start + Len(Opening)) + Len(Closing) - 1
           /\ NoLF(Orig, sp.start, sp.end)
    /\ \A k, l \in 1..Len(m[1].spans) :
         k < l => ~NoLF(Orig, m[1].spans[k].start, m[1].spans[l].start)

\* a finished run on a content with two markers on one line, only the first
\* of which was given the prefix
C8_Witness ==
  /\ pc[1] = "done"
  /\ m[1].n = 1
  /\ \E i, j \in MarkerSet(Orig) : i < j /\ NoLF(Orig, i, j)
  /\ disk.data = InsertAfter(Orig, {Min(MarkerSet(Orig))}, Ins(1))

(***************************************************************************)
(* C1: one run gives every one of the N markers of the content its prefix, *)
(* in place, and changes nothing else.                                     *)
(***************************************************************************)
C1_EveryMarkerNamespaced ==
  pc[1] = "done" => disk.data = InsertAfter(Orig, MarkerSet(Orig), Ins(1))

(***************************************************************************)
(* C2: when the content holds exactly one marker, one run inserts the      *)
(* prefix and a slash right after the Opening of that marker and leaves    *)
(* every other character in place; the cassandra.js line with prefix db    *)
(* is the example.                                                         *)
(***************************************************************************)
CassandraDb ==
  Opening \o <<"d", "b", "/">>
          \o <<"c", "a", "s", "s", "a", "n", "d", "r", "a", ".", "j", "s">>
          \o <<"'", "]", "[", "2", "1", "]", " ", "=", " ", "0", ";">>

C2_SingleMarker ==
  pc[1] = "done" =>
    /\ Len(Markers(Orig)) = 1 =>
         LET i == Markers(Orig)[1] IN
           disk.data = SubSeq(Orig, 1, i + Len(Opening) - 1) \o Prefix(1) \o Slash
                         \o SubSeq(Orig, i + Len(Opening), Len(Orig))
    /\ (Orig = CassandraLine /\ Prefix(1) = <<"d", "b">>) => disk.data = CassandraDb

\* a finished run on a one-marker content whose marker is followed, on the
\* same line, by a further Closing
C2_Witness ==
  /\ pc[1] = "done"
  /\ Len(Markers(Orig)) = 1
  /\ Cardinality({j \in Closes(Orig) : NoLF(Orig, Markers(Orig)[1], j)}) >= 2
  /\ disk.data # Orig

(***************************************************************************)
(* C3: on a content without a marker a run with a prefix does not end in   *)
(* an error and leaves the file content exactly as it was.                 *)
(***************************************************************************)
C3_NoMarkerUnchanged ==
  (Usable(Start) /\ HasPrefix(1) /\ Markers(Orig) = <<>>) =>
    /\ pc[1] # "error"
    /\ disk = Start

\* a finished run on a non-empty content without a marker
C3_Witness ==
  /\ pc[1] = "done"
  /\ Opens(Orig) # {}
  /\ Closes(Orig) # {}
  /\ Markers(Orig) = <<>>
  /\ disk.data = Orig

(***************************************************************************)
(* C4 as stated: whenever the content has a marker, a second run with the  *)
(* same prefix P, whatever P is, leaves P/P/ where the first run left P/,  *)
(* and so changes the content the first run produced.                      *)
(***************************************************************************)
Before == hist[Len(hist) - 1].data

TwiceDone ==
  /\ Len(hist) >= 2
  /\ pc[1] = "done"
  /\ Usable(hist[Len(hist) - 1])
  /\ Markers(Before) # <<>>

DoubleNamespaced ==
  /\ disk.data = InsertAfter(Before, FirstOpens(Before), Ins(1) \o Ins(1))
  /\ disk.data # Orig

C4_NotIdempotentAnyPrefix == TwiceDone => DoubleNamespaced

(***************************************************************************)
(* C4, amended: the same, for every prefix P that holds no line break.     *)
(***************************************************************************)
C4_NotIdempotent ==
  (TwiceDone /\ NoLF(Prefix(1), 1, Len(Prefix(1)))) => DoubleNamespaced

\* two runs done on a content with a marker, with a prefix without line break
C4_Witness ==
  /\ TwiceDone
  /\ NoLF(Prefix(1), 1, Len(Prefix(1)))
  /\ Len(disk.data) = Len(Before) + 2 * Len(Ins(1))

(***************************************************************************)
(* C5: a run without the prefix argument never completes: it ends in an    *)
(* IndexError, whatever the file holds.                                    *)
(***************************************************************************)
C5_AbsentPrefixFails ==
  (Usable(Start) /\ Len(argv[1]) = 2) =>
    /\ ~PastSub(1)
    /\ pc[1] = "error" => err[1] = "IndexError"

(***************************************************************************)
(* C6: after a run that completed, the file holds exactly the transformed  *)
(* string: no byte of the former content remains after it.                 *)
(***************************************************************************)
C6_FileIsTransformed ==
  pc[1] = "done" =>
    /\ disk.data = whole_thing[1]
    /\ Len(whole_thing[1]) < Len(Orig) => Len(disk.data) = Len(whole_thing[1])

\* a completed run that made a substitution
C6_Witness ==
  /\ pc[1] = "done"
  /\ m[1].n >= 1
  /\ disk.data = whole_thing[1]
  /\ disk.data # Orig

(***************************************************************************)
(* C9: the transformed string is len(P) + 1 longer than the content read   *)
(* for each of the k substitutions, hence never shorter, and the write     *)
(* from offset 0 ends at or after the end of the former content and        *)
(* leaves none of its bytes behind.                                        *)
(***************************************************************************)
C9_LengthGrows ==
  PastSub(1) =>
    /\ Len(whole_thing[1]) =
         Len(Orig) + m[1].n * (IF m[1].n = 0 THEN 0 ELSE Len(Prefix(1)) + 1)
    /\ m[1].n = Len(m[1].spans)
    /\ Len(whole_thing[1]) >= Len(Orig)
    /\ pc[1] = "written" =>
         /\ text_file[1].pos >= Len(Orig)
         /\ text_file[1].pos = Len(disk.data)
    /\ pc[1] \in {"written", "done"} => Len(disk.data) = Len(whole_thing[1])

\* the write of a run with two substitutions is done
C9_Witness ==
  /\ pc[1] = "written"
  /\ m[1].n = 2
  /\ Len(disk.data) = Len(Orig) + 2 * (Len(Prefix(1)) + 1)

(***************************************************************************)
(* C10: a run that ends in an error leaves the disk as it found it.  On a  *)
(* missing file the open raises and no file is created; without the        *)
(* prefix argument, on a content with a marker, the substitution raises    *)
(* before the seek and the write, and the content is unchanged.            *)
(***************************************************************************)
C10_ErrorLeavesDisk ==
  /\ pc[1] = "error" => disk = Start
  /\ (~Start.exists /\ Len(argv[1]) >= 2 /\ pc[1] # "start") =>
       /\ pc[1] = "error"
       /\ err[1] = "IOError"
       /\ ~disk.exists
  /\ (Usable(Start) /\ Len(argv[1]) = 2 /\ Markers(Orig) # <<>>
        /\ pc[1] \notin {"start", "opened", "read"}) =>
       /\ pc[1] = "error"
       /\ err[1] = "IndexError"
       /\ \A k \in 1..Len(trace) : trace[k][2] # "write"
       /\ disk = Start

\* the substitution raised: no prefix argument, a marker in the file
C10_Witness ==
  /\ pc[1] = "error"
  /\ err[1] = "IndexError"
  /\ Len(argv[1]) = 2
  /\ Markers(Orig) # <<>>
  /\ trace = <<<<1, "read">>>>
  /\ disk = Start

(***************************************************************************)
(* C7: two invocations on one file are not coordinated.  When both have    *)
(* read the original content before either writes, the content has a       *)
(* marker and neither prefix holds a line break, the final content is the  *)
(* later write laid over the earlier one: it starts with the later         *)
(* writer's single-prefix result, keeps the trailing bytes of the earlier  *)
(* write when that one is longer, and is the result of neither serial      *)
(* order.                                                                  *)
(***************************************************************************)
AllDone == \A p \in Procs : pc[p] = "done"

BothReadFirst ==
  /\ Len(trace) = 4
  /\ trace[1][2] = "read"
  /\ trace[2][2] = "read"

FirstWriter == trace[3][1]
LastWriter == trace[4][1]

\* what one run alone makes of the original content with the prefix of p
Alone(p) == InsertAfter(Orig, FirstOpens(Orig), Ins(p))

\* the result of running p, then q, one after the other
Serial(p, q) == re_sub(re_sub(Orig, argv[p]).out, argv[q]).out

PlainPrefixes == \A p \in Procs : NoLF(Prefix(p), 1, Len(Prefix(p)))

====
